---- MODULE Spec2Model ----
(***************************************************************************)
(* monaco-service: the cloudevents receiver of src/main.go.                *)
(*                                                                         *)
(* main/_main configure the process and start the receiver; the receiver   *)
(* calls processKeptnCloudEvent once per inbound request, each on its own  *)
(* goroutine.  processKeptnCloudEvent builds the Keptn session, switches   *)
(* on the event type, decodes the payload and returns what the bound       *)
(* handler returns.  The two handlers (HandleConfigureMonitoringTriggered- *)
(* Event, HandleMonacoTriggeredEvent) are not part of src/: their steps    *)
(* are modelled from the specification's description of a task handler.    *)
(***************************************************************************)
EXTENDS Naturals, Sequences, FiniteSets, TLC

(* ---------------------------------------------------------------- bounds *)

\* Number of inbound requests (each one goroutine of the receiver).
MaxReq == 2

Req == 1..MaxReq

(* ------------------------------------------------------------- constants *)

ServiceName == "monaco-service"
MonacoEvent == "monaco"
ConfigureMonitoringTaskName == "configure-monitoring"

\* Task names that occur in inbound event types; "deployment" is a task of
\* another service delivered by the same topic wildcard.
Tasks == {ConfigureMonitoringTaskName, MonacoEvent, "deployment"}

Phases == {"triggered", "started", "status.changed", "finished"}

\* keptnv2.Get<Phase>EventType: sh.keptn.event.${EVENTNAME}.<phase>
GetTriggeredEventType(task) == "sh.keptn.event." \o task \o ".triggered"
GetStartedEventType(task) == "sh.keptn.event." \o task \o ".started"
GetStatusChangedEventType(task) == "sh.keptn.event." \o task \o ".status.changed"
GetFinishedEventType(task) == "sh.keptn.event." \o task \o ".finished"

\* A type string that does not follow the naming convention (no namespace).
MalformedTypes == {"monaco.triggered"}

\* The types of the envelopes the distributor delivers: every phase of the
\* two tasks the switch names, the trigger of another service's task, and a
\* type outside the convention.
InboundTypes ==
    {GetTriggeredEventType(t) : t \in Tasks}
        \cup {GetStartedEventType(t) : t \in Tasks \ {"deployment"}}
        \cup {GetStatusChangedEventType(t) : t \in Tasks \ {"deployment"}}
        \cup {GetFinishedEventType(t) : t \in Tasks \ {"deployment"}}
        \cup MalformedTypes

\* Correlation ids a producer may put in the shkeptncontext extension; the
\* trigger of request r, when it carries one, carries the r-th.
KeptnContexts == <<"ctx-a", "ctx-b", "ctx-c", "ctx-d">>

KeptnContextOf(r) == KeptnContexts[((r - 1) % Len(KeptnContexts)) + 1]

\* The extension attributes of an envelope: a set of <<name, value>> pairs.
ExtensionSets(r) == {{}, {<<"shkeptncontext", KeptnContextOf(r)>>}}

\* Envelopes the transport can hand to the receiver for request r; the id is
\* producer-assigned and unique per envelope.
InboundEvents(r) ==
    {[type |-> t, id |-> r, extensions |-> x] : t \in InboundTypes, x \in ExtensionSets(r)}

NoEvent == [type |-> "", id |-> 0, extensions |-> {}]

\* envConfig values main can be started with (ENV, CONFIGURATION_SERVICE).
EnvConfigs ==
    {[Env |-> "local", ConfigurationServiceUrl |-> ""],
     [Env |-> "production", ConfigurationServiceUrl |-> "http://configuration-service:8080"]}

NoEnv == [Env |-> "", ConfigurationServiceUrl |-> ""]

NoSession == [valid |-> FALSE, KeptnContext |-> "", EventID |-> 0]

(* ----------------------------------------------------------------- state *)

VARIABLES
    mainPc,        \* position of main/_main
    exitCause,     \* why the process exited: "none", "startup", "payload", "panic"
    env,           \* the envConfig processed by main
    keptnOptions,  \* the package-level keptn.KeptnOpts
    pc,            \* per request: position of its goroutine
    event,         \* per request: the decoded envelope
    myKeptn,       \* per request: the session built by keptnv2.NewKeptn
    shkeptncontext,\* per request: the local read by ExtensionAs
    decodes,       \* per request: results of parseKeptnCloudEventPayload calls
    handlerCalls,  \* per request: the handler invocations, in order
    result,        \* per request: what processKeptnCloudEvent gave the transport
    out            \* outbound events in emission order

vars == <<mainPc, exitCause, env, keptnOptions, pc, event, myKeptn,
          shkeptncontext, decodes, handlerCalls, result, out>>

procVars == <<mainPc, exitCause, env, keptnOptions>>
reqVars == <<pc, event, myKeptn, shkeptncontext, decodes, handlerCalls, result, out>>

Init ==
    /\ mainPc = "envconfig"
    /\ exitCause = "none"
    /\ env = NoEnv
    /\ keptnOptions = [UseLocalFileSystem |-> FALSE, ConfigurationServiceURL |-> ""]
    /\ pc = [r \in Req |-> "idle"]
    /\ event = [r \in Req |-> NoEvent]
    /\ myKeptn = [r \in Req |-> NoSession]
    /\ shkeptncontext = [r \in Req |-> ""]
    /\ decodes = [r \in Req |-> <<>>]
    /\ handlerCalls = [r \in Req |-> <<>>]
    /\ result = [r \in Req |-> "pending"]
    /\ out = <<>>

(* --------------------------------------------------------------- startup *)

\* log.Fatalf / log.Fatal: the process exits, every goroutine with it.
Fatal(cause) ==
    /\ mainPc' = "exited"
    /\ exitCause' = cause

\* main: envconfig.Process("", &env)
MainEnvconfig ==
    /\ mainPc = "envconfig"
    /\ \/ /\ \E e \in EnvConfigs : env' = e
          /\ mainPc' = "options"
          /\ UNCHANGED exitCause
       \/ /\ Fatal("startup")
          /\ UNCHANGED env
    /\ UNCHANGED <<keptnOptions, reqVars>>

\* _main: configure keptn options
ConfigureKeptnOptions(opts, e) ==
    [UseLocalFileSystem |-> IF e.Env = "local" THEN TRUE ELSE opts.UseLocalFileSystem,
     ConfigurationServiceURL |-> e.ConfigurationServiceUrl]

MainOptions ==
    /\ mainPc = "options"
    /\ keptnOptions' = ConfigureKeptnOptions(keptnOptions, env)
    /\ mainPc' = "newhttp"
    /\ UNCHANGED <<exitCause, env, reqVars>>

\* _main: cloudevents.NewHTTP(...)
MainNewHTTP ==
    /\ mainPc = "newhttp"
    /\ \/ /\ mainPc' = "newclient"
          /\ UNCHANGED exitCause
       \/ Fatal("startup")
    /\ UNCHANGED <<env, keptnOptions, reqVars>>

\* _main: cloudevents.NewClient(p)
MainNewClient ==
    /\ mainPc = "newclient"
    /\ \/ /\ mainPc' = "startreceiver"
          /\ UNCHANGED exitCause
       \/ Fatal("startup")
    /\ UNCHANGED <<env, keptnOptions, reqVars>>

\* _main: log.Fatal(c.StartReceiver(ctx, processKeptnCloudEvent)); the
\* receiver either serves, or returns at once (the listener cannot be opened).
MainStartReceiver ==
    /\ mainPc = "startreceiver"
    /\ \/ /\ mainPc' = "running"
          /\ UNCHANGED exitCause
       \/ Fatal("startup")
    /\ UNCHANGED <<env, keptnOptions, reqVars>>

Running == mainPc = "running"

(* -------------------------------------------------------------- receiver *)

\* Mutant of RejectRequest: the correlation context is built from the raw
\* request before the body is decoded.
RejectRequestAfterContext(r) ==
    /\ Running
    /\ pc[r] = "idle"
    /\ pc' = [pc EXCEPT ![r] = "rejected"]
    /\ result' = [result EXCEPT ![r] = "decode_error"]
    /\ myKeptn' = [myKeptn EXCEPT ![r] = [valid |-> TRUE, KeptnContext |-> "", EventID |-> 0]]
    /\ UNCHANGED <<procVars, event, shkeptncontext, decodes, handlerCalls, out>>

\* The receiver decodes the request body into an envelope before it calls
\* the receive function; an undecodable body is answered with a failure and
\* the receive function is not called.
RejectRequest(r) ==
    /\ Running
    /\ pc[r] = "idle"
    /\ pc' = [pc EXCEPT ![r] = "rejected"]
    /\ result' = [result EXCEPT ![r] = "decode_error"]
    /\ UNCHANGED <<procVars, event, myKeptn, shkeptncontext, decodes, handlerCalls, out>>

(* ------------------------------------------------- processKeptnCloudEvent *)

\* Mutant of ExtensionAs: an absent extension is read as a placeholder value
\* and not as the zero value.
ExtensionAsNoDefault(extensions, name) ==
    IF \E x \in extensions : x[1] = name
    THEN (CHOOSE x \in extensions : x[1] = name)[2]
    ELSE "<missing>"

\* event.Context.ExtensionAs(name, &v): v keeps its zero value "" when the
\* extension is absent.
ExtensionAs(extensions, name) ==
    IF \E x \in extensions : x[1] = name
    THEN (CHOOSE x \in extensions : x[1] = name)[2]
    ELSE ""

\* Mutant of NewKeptn: the session loses the event's correlation id.
NewKeptnDropsContext(e, opts) ==
    [valid |-> TRUE, KeptnContext |-> "", EventID |-> e.id]

\* keptnv2.NewKeptn(&event, keptnOptions), when it returns no error: the
\* session is bound to the event's correlation id and id.
NewKeptn(e, opts) ==
    [valid |-> TRUE,
     KeptnContext |-> ExtensionAs(e.extensions, "shkeptncontext"),
     EventID |-> e.id]

\* Mutant of BoundHandler: the two cases call each other's handler.
BoundHandlerSwapped(type) ==
    CASE type = GetTriggeredEventType(ConfigureMonitoringTaskName)
            -> "HandleMonacoTriggeredEvent"
      [] type = GetTriggeredEventType(MonacoEvent)
            -> "HandleConfigureMonitoringTriggeredEvent"
      [] OTHER -> "none"

\* Mutant of BoundHandler: the cases compare the task name and not the phase.
BoundHandlerAnyPhase(type) ==
    CASE type \in {GetTriggeredEventType(ConfigureMonitoringTaskName),
                   GetStartedEventType(ConfigureMonitoringTaskName),
                   GetStatusChangedEventType(ConfigureMonitoringTaskName),
                   GetFinishedEventType(ConfigureMonitoringTaskName)}
            -> "HandleConfigureMonitoringTriggeredEvent"
      [] type \in {GetTriggeredEventType(MonacoEvent),
                   GetStartedEventType(MonacoEvent),
                   GetStatusChangedEventType(MonacoEvent),
                   GetFinishedEventType(MonacoEvent)}
            -> "HandleMonacoTriggeredEvent"
      [] OTHER -> "none"

\* The switch on event.Type(): the handler of the first case that equals the
\* type, "none" when the switch falls through.
BoundHandler(type) ==
    CASE type = GetTriggeredEventType(ConfigureMonitoringTaskName)
            -> "HandleConfigureMonitoringTriggeredEvent"
      [] type = GetTriggeredEventType(MonacoEvent)
            -> "HandleMonacoTriggeredEvent"
      [] OTHER -> "none"

\* The structure each case allocates for the payload.
EventDataFor(handler) ==
    IF handler = "HandleConfigureMonitoringTriggeredEvent"
    THEN "ConfigureMonitoringTriggeredEventData"
    ELSE "MonacoStartedEventData"

\* The task whose lifecycle events a handler emits.
TaskOf(handler) ==
    IF handler = "HandleConfigureMonitoringTriggeredEvent"
    THEN ConfigureMonitoringTaskName
    ELSE MonacoEvent

\* Mutant of ParseFailure: the error is logged without exiting and returned
\* to the transport.
ParseFailureReturns(r) ==
    /\ mainPc' = mainPc
    /\ exitCause' = exitCause
    /\ pc' = [pc EXCEPT ![r] = "done"]

\* parseKeptnCloudEventPayload with err != nil: log.Fatalf exits the process
\* (the return err after it is never reached).
ParseFailure(r) ==
    /\ Fatal("payload")
    /\ pc' = [pc EXCEPT ![r] = "fatal"]

\* Mutant of SessionFailure: the error of keptnv2.NewKeptn is swallowed.
SessionFailureSwallowed(r) ==
    /\ result' = [result EXCEPT ![r] = "nil"]
    /\ pc' = [pc EXCEPT ![r] = "done"]

\* return errors.New("Could not create Keptn Handler: " + err.Error())
SessionFailure(r) ==
    /\ result' = [result EXCEPT ![r] = "err_session"]
    /\ pc' = [pc EXCEPT ![r] = "done"]

\* Mutant of Unhandled: the unknown event is returned as an error, as the
\* comment above it announces.
UnhandledThrows(r) ==
    /\ result' = [result EXCEPT ![r] = "err_unhandled"]
    /\ pc' = [pc EXCEPT ![r] = "done"]

\* Unknown event: logger.Error(errorMsg); return nil
Unhandled(r) ==
    /\ result' = [result EXCEPT ![r] = "nil"]
    /\ pc' = [pc EXCEPT ![r] = "done"]

\* Mutant of InvokeHandler: the handler is given a session kept at package
\* level, bound to the first trigger, instead of the request's own.
InvokeHandlerSharedSession(r, h, keptn, e) ==
    /\ handlerCalls' = [handlerCalls EXCEPT ![r] =
            Append(@, [handler |-> h, myKeptn |-> [keptn EXCEPT !.EventID = 1],
                       event |-> e, eventData |-> EventDataFor(h),
                       returned |-> "running"])]
    /\ pc' = [pc EXCEPT ![r] = "handler"]

\* return Handle...TriggeredEvent(myKeptn, event, eventData): the call.
InvokeHandler(r, h, keptn, e) ==
    /\ handlerCalls' = [handlerCalls EXCEPT ![r] =
            Append(@, [handler |-> h, myKeptn |-> keptn, event |-> e,
                       eventData |-> EventDataFor(h), returned |-> "running"])]
    /\ pc' = [pc EXCEPT ![r] = "handler"]

\* The receiver calls processKeptnCloudEvent with the decoded envelope e of
\* request r: from its entry to the handler call (or to its return when no
\* handler is called).  newKeptnOk and dataAsOk are the outcomes of
\* keptnv2.NewKeptn and event.DataAs for this event.
ProcessKeptnCloudEvent(r) ==
    /\ Running
    /\ pc[r] = "idle"
    /\ \E e \in InboundEvents(r), newKeptnOk \in BOOLEAN, dataAsOk \in BOOLEAN :
        LET h == BoundHandler(e.type)
            keptn == NewKeptn(e, keptnOptions)
        IN  /\ event' = [event EXCEPT ![r] = e]
            /\ shkeptncontext' =
                [shkeptncontext EXCEPT ![r] = ExtensionAs(e.extensions, "shkeptncontext")]
            /\ IF ~newKeptnOk
               THEN /\ dataAsOk
                    /\ SessionFailure(r)
                    /\ UNCHANGED <<procVars, myKeptn, decodes, handlerCalls>>
               ELSE /\ myKeptn' = [myKeptn EXCEPT ![r] = keptn]
                    /\ IF h = "none"
                       THEN /\ dataAsOk
                            /\ Unhandled(r)
                            /\ UNCHANGED <<procVars, decodes, handlerCalls>>
                       ELSE /\ decodes' = [decodes EXCEPT ![r] =
                                   Append(@, [into |-> EventDataFor(h), ok |-> dataAsOk])]
                            /\ IF dataAsOk
                               THEN /\ InvokeHandler(r, h, keptn, e)
                                    /\ UNCHANGED <<procVars, result>>
                               ELSE /\ ParseFailure(r)
                                    /\ UNCHANGED <<env, keptnOptions, handlerCalls, result>>
    /\ UNCHANGED out

(* ---------------------------------------------------------- task handler *)

\* Task Session emitStarted: <prefix>.<taskName>.started, correlated to the
\* triggering event id, carrying the session's correlation id.
StartedEvent(keptn, task) ==
    [type |-> GetStartedEventType(task), source |-> ServiceName,
     triggeredid |-> keptn.EventID, shkeptncontext |-> keptn.KeptnContext,
     status |-> ""]

\* Task Session emitFinished: <prefix>.<taskName>.finished with a status.
FinishedEvent(keptn, task, status) ==
    [type |-> GetFinishedEventType(task), source |-> ServiceName,
     triggeredid |-> keptn.EventID, shkeptncontext |-> keptn.KeptnContext,
     status |-> status]

\* The call a request's goroutine is in.
CurrentCall(r) == handlerCalls[r][Len(handlerCalls[r])]

\* The handler call of request r returns v ("running" until it does).
Returned(r, v) ==
    [handlerCalls EXCEPT ![r][Len(handlerCalls[r])].returned = v]

\* Mutant of ReturnOf: the handler's error is wrapped in a new error, as the
\* session-creation error is.
ReturnOfWrapsError(handlerResult) ==
    IF handlerResult = "nil" THEN "nil" ELSE "err_wrapped"

\* What processKeptnCloudEvent returns once the handler has returned: the
\* handler's return value itself ("return Handle...(...)").
ReturnOf(handlerResult) == handlerResult

\* The handler emits the started event of its task.
HandlerEmitStarted(r) ==
    /\ Running
    /\ pc[r] = "handler"
    /\ out' = Append(out, StartedEvent(CurrentCall(r).myKeptn,
                                       TaskOf(CurrentCall(r).handler)))
    /\ pc' = [pc EXCEPT ![r] = "working"]
    /\ UNCHANGED <<procVars, event, myKeptn, shkeptncontext, decodes, handlerCalls, result>>

\* The handler completes its task (succeeded) or handles a failure of it
\* (failed), emits the finished event and returns nil.
HandlerFinish(r) ==
    /\ Running
    /\ pc[r] = "working"
    /\ \E status \in {"succeeded", "failed"} :
        out' = Append(out, FinishedEvent(CurrentCall(r).myKeptn,
                                         TaskOf(CurrentCall(r).handler), status))
    /\ handlerCalls' = Returned(r, "nil")
    /\ result' = [result EXCEPT ![r] = ReturnOf("nil")]
    /\ pc' = [pc EXCEPT ![r] = "done"]
    /\ UNCHANGED <<procVars, event, myKeptn, shkeptncontext, decodes>>

\* The handler returns an error; processKeptnCloudEvent hands it on.
HandlerError(r) ==
    /\ Running
    /\ pc[r] \in {"handler", "working"}
    /\ handlerCalls' = Returned(r, "err_handler")
    /\ result' = [result EXCEPT ![r] = ReturnOf("err_handler")]
    /\ pc' = [pc EXCEPT ![r] = "done"]
    /\ UNCHANGED <<procVars, event, myKeptn, shkeptncontext, decodes, out>>

\* The handler panics.  processKeptnCloudEvent has no recover, so the panic
\* leaves it; the receiver's goroutine either recovers it (the request
\* fails) or the process dies, depending on the cloudevents SDK in the build.
HandlerFault(r) ==
    /\ Running
    /\ pc[r] \in {"handler", "working"}
    /\ \/ /\ result' = [result EXCEPT ![r] = "panic"]
          /\ pc' = [pc EXCEPT ![r] = "done"]
          /\ UNCHANGED procVars
       \/ /\ Fatal("panic")
          /\ pc' = [pc EXCEPT ![r] = "crashed"]
          /\ UNCHANGED <<env, keptnOptions, result>>
    /\ UNCHANGED <<event, myKeptn, shkeptncontext, decodes, handlerCalls, out>>

(* ---------------------------------------------------------- specification *)

Next ==
    \/ MainEnvconfig
    \/ MainOptions
    \/ MainNewHTTP
    \/ MainNewClient
    \/ MainStartReceiver
    \/ \E r \in Req : RejectRequest(r)
    \/ \E r \in Req : ProcessKeptnCloudEvent(r)
    \/ \E r \in Req : HandlerEmitStarted(r)
    \/ \E r \in Req : HandlerFinish(r)
    \/ \E r \in Req : HandlerError(r)
    \/ \E r \in Req : HandlerFault(r)

Spec == Init /\ [][Next]_vars

(* ----------------------------------------------------------------- claims *)

\* The types with a registered handler, as the specification names them.
Registered(type) ==
    type \in {"sh.keptn.event.configure-monitoring.triggered",
              "sh.keptn.event.monaco.triggered"}

StartedTypes == {GetStartedEventType(t) : t \in Tasks}
FinishedTypes == {GetFinishedEventType(t) : t \in Tasks}

\* The types whose phase is started, status.changed or finished.
NonTriggeredTypes ==
    StartedTypes \cup {GetStatusChangedEventType(t) : t \in Tasks} \cup FinishedTypes

\* Positions in out of the started / finished events of request r's trigger.
StartedFor(r) ==
    {i \in DOMAIN out : out[i].triggeredid = event[r].id /\ out[i].type \in StartedTypes}
FinishedFor(r) ==
    {i \in DOMAIN out : out[i].triggeredid = event[r].id /\ out[i].type \in FinishedTypes}
EmittedFor(r) ==
    {i \in DOMAIN out : out[i].triggeredid = event[r].id}

\* The request's processing is over: answered, or cut off by the process exit.
Ended(r) == pc[r] \in {"done", "fatal", "crashed"}

\* Envelope e carries correlation id c ("" when it has no such extension).
Carries(e, c) ==
    IF e.extensions = {} THEN c = "" ELSE <<"shkeptncontext", c>> \in e.extensions

\* C1: once the processing of a well-formed event of a registered triggered
\* type, whose handler was invoked, is over, exactly one finished event
\* correlated to the triggering event id has been emitted - on the success,
\* the handled-failure and the fault exit of the handler alike.
C1_ExactlyOneFinished ==
    \A r \in Req :
        (Ended(r) /\ Registered(event[r].type) /\ handlerCalls[r] # <<>>)
            => Cardinality(FinishedFor(r)) = 1

\* C2: when the handler invoked for a registered triggered event returns an
\* error or faults, a finished event with status errored has been emitted for
\* that trigger by the time the request is over, and the process has not
\* crashed.
C2_HandlerFailureErrored ==
    \A r \in Req :
        (Ended(r) /\ handlerCalls[r] # <<>>
                  /\ (result[r] \in {"err_handler", "panic"} \/ pc[r] = "crashed"))
            => /\ \E i \in FinishedFor(r) : out[i].status = "errored"
               /\ pc[r] # "crashed"
               /\ exitCause # "panic"

C4_OnlyStartupTerminates ==
    mainPc = "exited" => exitCause = "startup"

\* C5: when an event matched a registered handler and its payload could not
\* be decoded, a finished event with status errored has been emitted for the
\* triggering event once its processing is over.
C5_DecodeFailureErrored ==
    \A r \in Req :
        (Ended(r) /\ \E i \in DOMAIN decodes[r] : ~decodes[r][i].ok)
            => \E i \in FinishedFor(r) : out[i].status = "errored"

\* C6: an error raised while processing one request (a payload decode
\* failure) never leaves another request, whose triggered event was accepted
\* and whose handler is running, unable to complete: no request is inside its
\* handler while another request's error has stopped the process.
C6_ErrorsIsolated ==
    \A r, q \in Req :
        (r # q /\ pc[r] = "fatal") => pc[q] \notin {"handler", "working"}

\* C7: every inbound event causes at most one handler invocation, and that
\* invocation is of the handler bound to the event's exact type, with the
\* request's session, its event and the payload structure of that handler.
C7_OneCorrectHandler ==
    \A r \in Req :
        /\ Len(handlerCalls[r]) <= 1
        /\ \A i \in DOMAIN handlerCalls[r] :
            LET c == handlerCalls[r][i]
            IN  /\ \/ /\ event[r].type = "sh.keptn.event.configure-monitoring.triggered"
                      /\ c.handler = "HandleConfigureMonitoringTriggeredEvent"
                      /\ c.eventData = "ConfigureMonitoringTriggeredEventData"
                   \/ /\ event[r].type = "sh.keptn.event.monaco.triggered"
                      /\ c.handler = "HandleMonacoTriggeredEvent"
                      /\ c.eventData = "MonacoStartedEventData"
                /\ c.event = event[r]
                /\ c.myKeptn = myKeptn[r]
                /\ myKeptn[r].valid
                /\ decodes[r] = <<[into |-> c.eventData, ok |-> TRUE]>>

\* C7 witness: two requests have each had their own handler invoked, one per
\* registered type.
C7_Witness ==
    \E r, q \in Req :
        /\ Len(handlerCalls[r]) = 1
        /\ handlerCalls[r][1].handler = "HandleConfigureMonitoringTriggeredEvent"
        /\ Len(handlerCalls[q]) = 1
        /\ handlerCalls[q][1].handler = "HandleMonacoTriggeredEvent"
        /\ pc[r] = "done" /\ pc[q] = "done"

\* C8: the session built for an event has the event's correlation id, and
\* every outbound event carries the correlation id of the event that
\* triggered it.
C8_CorrelationPropagated ==
    /\ \A r \in Req :
        myKeptn[r].valid => Carries(event[r], myKeptn[r].KeptnContext)
    /\ \A i \in DOMAIN out :
        \E r \in Req :
            /\ event[r].id = out[i].triggeredid
            /\ Carries(event[r], out[i].shkeptncontext)

\* C8 witness: two triggers with different correlation ids have both had
\* their started and finished events emitted.
C8_Witness ==
    \E r, q \in Req :
        /\ r # q
        /\ event[r].extensions # {} /\ event[q].extensions # {}
        /\ event[r].extensions # event[q].extensions
        /\ \E i \in FinishedFor(r) : out[i].shkeptncontext # ""
        /\ StartedFor(r) # {} /\ FinishedFor(r) # {}
        /\ StartedFor(q) # {} /\ FinishedFor(q) # {}

\* C9: in emission order, the started event of a trigger precedes the
\* finished event of the same trigger.
C9_StartedBeforeFinished ==
    \A i, j \in DOMAIN out :
        (/\ out[i].type \in StartedTypes
         /\ out[j].type \in FinishedTypes
         /\ out[i].triggeredid = out[j].triggeredid) => i < j

\* C9 witness: the lifecycle events of two triggers are interleaved: started,
\* started, finished, finished.
C9_Witness ==
    \E r, q \in Req :
        /\ r # q
        /\ \E i \in StartedFor(r), j \in StartedFor(q),
              k \in FinishedFor(r), l \in FinishedFor(q) : i < j /\ j < k /\ k < l

\* C10: an inbound event whose phase is started, status.changed or finished
\* never causes a handler to be invoked, whatever its task name.
C10_OnlyTriggeredDispatched ==
    \A r \in Req :
        event[r].type \in NonTriggeredTypes
            => handlerCalls[r] = <<>> /\ pc[r] \notin {"handler", "working"}

\* C10 witness: a monaco.finished and a configure-monitoring.started event
\* have been processed with a session and no handler ran.
C10_Witness ==
    \E r, q \in Req :
        /\ event[r].type = "sh.keptn.event.monaco.finished"
        /\ event[q].type = "sh.keptn.event.configure-monitoring.started"
        /\ pc[r] = "done" /\ pc[q] = "done"
        /\ myKeptn[r].valid /\ myKeptn[q].valid
        /\ handlerCalls[r] = <<>> /\ handlerCalls[q] = <<>>

\* Request r has entered processKeptnCloudEvent.
Entered(r) == pc[r] \notin {"idle", "rejected"}

C13_StartupWritesOnly ==
    /\ [][(keptnOptions' # keptnOptions)
            => (mainPc = "options" /\ \A r \in Req : pc[r] = "idle")]_vars
    /\ [][Running => keptnOptions' = keptnOptions]_vars
    /\ [][\A r \in Req :
            pc'[r] = pc[r]
                => /\ event'[r] = event[r]
                   /\ myKeptn'[r] = myKeptn[r]
                   /\ shkeptncontext'[r] = shkeptncontext[r]
                   /\ decodes'[r] = decodes[r]
                   /\ handlerCalls'[r] = handlerCalls[r]
                   /\ result'[r] = result[r]]_vars
    /\ [](\A r \in Req : \A i \in DOMAIN handlerCalls[r] :
            /\ handlerCalls[r][i].myKeptn = myKeptn[r]
            /\ handlerCalls[r][i].myKeptn.EventID = event[r].id)

\* C13 witness: with the options written at startup, two requests are inside
\* their handlers at the same time, each with its own session.
C13_Witness ==
    /\ Running
    /\ keptnOptions.UseLocalFileSystem
    /\ \E r, q \in Req :
        /\ r # q
        /\ pc[r] = "working" /\ pc[q] = "handler"
        /\ myKeptn[r].valid /\ myKeptn[q].valid
        /\ myKeptn[r] # myKeptn[q]

\* The payload decode of request r failed.
DecodeFailed(r) == \E i \in DOMAIN decodes[r] : ~decodes[r][i].ok

\* C14: for a monaco.triggered event whose session is built and whose payload
\* decodes, the monaco handler is invoked with the decoded payload; when that
\* handler has succeeded (returned nil having reported succeeded), nil is
\* returned to the transport and exactly one outbound event of type
\* monaco.finished exists for the trigger, with status succeeded.
C14_MonacoSucceeds ==
    \A r \in Req :
        (event[r].type = "sh.keptn.event.monaco.triggered" /\ myKeptn[r].valid
            /\ ~DecodeFailed(r))
            => /\ Len(handlerCalls[r]) = 1
               /\ handlerCalls[r][1].handler = "HandleMonacoTriggeredEvent"
               /\ handlerCalls[r][1].eventData = "MonacoStartedEventData"
               /\ handlerCalls[r][1].event = event[r]
               /\ decodes[r] = <<[into |-> "MonacoStartedEventData", ok |-> TRUE]>>
               /\ (/\ handlerCalls[r][1].returned = "nil"
                   /\ \E i \in FinishedFor(r) : out[i].status = "succeeded")
                    => /\ pc[r] = "done"
                       /\ result[r] = "nil"
                       /\ Cardinality(FinishedFor(r)) = 1
                       /\ \A i \in FinishedFor(r) :
                            /\ out[i].type = "sh.keptn.event.monaco.finished"
                            /\ out[i].status = "succeeded"

\* C14 witness: a monaco.triggered event has been handled successfully and
\* its succeeded finished event is out.
C14_Witness ==
    \E r \in Req :
        /\ event[r].type = "sh.keptn.event.monaco.triggered"
        /\ pc[r] = "done" /\ result[r] = "nil"
        /\ handlerCalls[r][1].returned = "nil"
        /\ \E i \in FinishedFor(r) :
            /\ out[i].type = "sh.keptn.event.monaco.finished"
            /\ out[i].status = "succeeded"

C17_SessionFailureReturns ==
    \A r \in Req :
        (Entered(r) /\ ~myKeptn[r].valid)
            => /\ pc[r] = "done"
               /\ result[r] = "err_session"
               /\ handlerCalls[r] = <<>>
               /\ decodes[r] = <<>>
               /\ EmittedFor(r) = {}

\* C17 witness: the session could not be built for a registered triggered
\* event and for an unregistered one.
C17_Witness ==
    \E r, q \in Req :
        /\ event[r].type = "sh.keptn.event.configure-monitoring.triggered"
        /\ result[r] = "err_session"
        /\ event[q].type = "sh.keptn.event.monaco.finished"
        /\ result[q] = "err_session"

====
